---- MODULE Spec2Model ----
(***************************************************************************)
(* A model of persistentAtom (src/src/persistent-atom.ts): the hydration   *)
(* sequence, the guarded set, the subscription that schedules writes, the  *)
(* debounce timer, flush and setAndFlush, run against a storage adapter    *)
(* whose calls settle asynchronously and may fail.                         *)
(*                                                                         *)
(* Every action is one job of the JavaScript event loop: the code that     *)
(* runs from a call or a settled promise up to the next await on the       *)
(* adapter, a timer or the fallback producer.                              *)
(***************************************************************************)
EXTENDS Integers, Sequences, FiniteSets, TLC

(* ------------------------------------------------------------------ *)
(* Bounds of the model                                                 *)
(* ------------------------------------------------------------------ *)

\* number of public operations (set, flush, setAndFlush) a behaviour calls
\* on an atom constructed with one of WriteConfigs
MaxOps == 2

\* the same for an atom constructed with one of HydrationConfigs
MaxHydrationOps == 1

\* the values an atom holds, the caller sets and the fallback producer returns
Values == {0, 1, 2, 3}

\* the version tags a stored record may carry
StoredVersions == {1, 2}

\* the highest target version, stored version tag and migration key of the
\* decoding specification
MaxVersion == 3

(* ------------------------------------------------------------------ *)
(* Inputs of the constructor                                           *)
(* ------------------------------------------------------------------ *)

\* persistentAtom(initial, opts): the constructor-supplied value
initial == 0

\* `version = 1` when the option is absent
DefaultVersion == 1

\* opts.migrations of the atoms of Configs: the keys of the registered
\* migrations
migrationKeys == {1, 2}

\* The options a behaviour is constructed with.  debounce: debounceMs is set;
\* schema, isEqual, onCorruption: the option is present; filePath and
\* createBackup: the adapter declares them; version: the target version;
\* migrations: the keys of opts.migrations.
Configs ==
  [ debounce     : BOOLEAN,
    schema       : BOOLEAN,
    isEqual      : BOOLEAN,
    onCorruption : BOOLEAN,
    filePath     : BOOLEAN,
    createBackup : BOOLEAN,
    version      : {DefaultVersion, 2},
    migrations   : {migrationKeys} ]

\* every combination of the options the hydration sequence reads
HydrationConfigs == {c \in Configs : ~c.isEqual}

\* every combination of the options the guarded set and the scheduler read
WriteConfigs ==
  {c \in Configs : /\ ~c.onCorruption /\ ~c.filePath /\ ~c.createBackup
                   /\ c.version = DefaultVersion}

\* the options of the decoding specification: every target version up to
\* MaxVersion with every set of registered migrations
DecodeConfigs ==
  [ debounce     : BOOLEAN,
    schema       : BOOLEAN,
    isEqual      : {FALSE},
    onCorruption : BOOLEAN,
    filePath     : BOOLEAN,
    createBackup : {TRUE},
    version      : 1..MaxVersion,
    migrations   : SUBSET (1..MaxVersion) ]

\* opts.schema.safeParse: rejects 3, coerces 2 to 1, accepts the rest as is
safeParse(data) ==
  IF data = 3 THEN [success |-> FALSE, data |-> data]
  ELSE [success |-> TRUE, data |-> IF data = 2 THEN 1 ELSE data]

\* opts.isEqual: an equivalence coarser than identity (compares parity)
isEqualFn(a, b) == (a % 2) = (b % 2)

\* migrations[2] throws on payload 3; no other migration throws
migrationThrows(v, data) == v = 2 /\ data = 3

\* the migration functions: migrations[1] adds one, migrations[2] doubles,
\* a migration keyed v above 2 adds v
migrationApply(v, data) ==
  IF v = 1 THEN (data + 1) % 4
  ELSE IF v = 2 THEN (2 * data) % 4
  ELSE (data + v) % 4

\* the error thrown for a failing migration names its version:
\* `Migration to version ${v} failed`
migrationError(v) ==
  << "MigrationError1", "MigrationError2", "MigrationError3",
     "MigrationError4", "MigrationError5" >>[v]

\* the call of migrations[v], as the hydration log records it
migrationEvent(v) ==
  << "migrate1", "migrate2", "migrate3", "migrate4", "migrate5" >>[v]

(* ------------------------------------------------------------------ *)
(* Strings held by the storage adapter                                 *)
(* ------------------------------------------------------------------ *)

\* no record under the key: getItem yields null or undefined
Absent == [kind |-> "absent", version |-> 0, data |-> 0]

\* a string JSON.parse rejects
Garbage == [kind |-> "garbage", version |-> 0, data |-> 0]

\* the JSON text of a bare value
Legacy(d) == [kind |-> "legacy", version |-> 0, data |-> d]

\* the JSON text of {version: v, data: d}
Envelope(v, d) == [kind |-> "versioned", version |-> v, data |-> d]

\* what the adapter may hold when the atom is constructed
StoredInit ==
  {Absent, Garbage, Legacy(1)}
    \cup {Envelope(v, d) : v \in StoredVersions, d \in {1, 3}}

\* the same for an atom constructed with one of WriteConfigs
WriteStoredInit == {Absent, Envelope(DefaultVersion, 1)}

\* the same for the decoding specification: every bare value and every
\* envelope of a version tag up to MaxVersion
DecodeStoredInit ==
  {Absent, Garbage}
    \cup {Legacy(d) : d \in Values}
    \cup {Envelope(v, d) : v \in 0..MaxVersion, d \in Values}

(* ------------------------------------------------------------------ *)
(* Versioned codec                                                     *)
(* ------------------------------------------------------------------ *)

\* a serializer that tags every record with the default version
serializeWithVersion_default(version, value) == Envelope(DefaultVersion, value)

serializeWithVersion(version, value) == Envelope(version, value)

\* a migration loop that stops one version short: v < version
RECURSIVE runMigrations_stopsEarly(_, _, _, _, _)
runMigrations_stopsEarly(keys, v, version, data, applied) ==
  IF v >= version
    THEN [ok |-> TRUE, data |-> data, err |-> "none", applied |-> applied]
  ELSE IF v \in keys
    THEN IF migrationThrows(v, data)
           THEN [ok |-> FALSE, data |-> data, err |-> migrationError(v),
                 applied |-> applied]
           ELSE runMigrations_stopsEarly(keys, v + 1, version,
                                         migrationApply(v, data),
                                         Append(applied, migrationEvent(v)))
    ELSE runMigrations_stopsEarly(keys, v + 1, version, data, applied)

\* a migration loop that catches a throwing migration and goes on
RECURSIVE runMigrations_swallows(_, _, _, _, _)
runMigrations_swallows(keys, v, version, data, applied) ==
  IF v > version
    THEN [ok |-> TRUE, data |-> data, err |-> "none", applied |-> applied]
  ELSE IF v \in keys /\ ~migrationThrows(v, data)
    THEN runMigrations_swallows(keys, v + 1, version,
                                migrationApply(v, data),
                                Append(applied, migrationEvent(v)))
    ELSE runMigrations_swallows(keys, v + 1, version, data, applied)

\* the migration loop: for (v = dataVersion + 1; v <= version; v++), with
\* keys the keys of opts.migrations; applied lists the migrations that
\* returned
RECURSIVE runMigrations(_, _, _, _, _)
runMigrations(keys, v, version, data, applied) ==
  IF v > version
    THEN [ok |-> TRUE, data |-> data, err |-> "none", applied |-> applied]
  ELSE IF v \in keys
    THEN IF migrationThrows(v, data)
           THEN [ok |-> FALSE, data |-> data, err |-> migrationError(v),
                 applied |-> applied]
           ELSE runMigrations(keys, v + 1, version, migrationApply(v, data),
                              Append(applied, migrationEvent(v)))
    ELSE runMigrations(keys, v + 1, version, data, applied)

\* a reader that takes a bare value for a record of the default version
dataVersionOf_legacyDefault(raw) ==
  IF raw.kind = "versioned" THEN raw.version ELSE DefaultVersion

\* a reader that ignores the version tag of an envelope
dataVersionOf_ignoresTag(raw) == 0

\* the version a parsed string is read at: 0 unless it is an envelope
dataVersionOf(raw) == IF raw.kind = "versioned" THEN raw.version ELSE 0

\* a decoder that runs the schema on the stored payload, before the
\* migrations
deserializeWithValidation_validatesFirst(cfg, raw) ==
  IF raw.kind = "garbage"
    THEN [ok |-> FALSE, data |-> 0, err |-> "ParseError", applied |-> << >>]
  ELSE IF cfg.schema /\ ~safeParse(raw.data).success
    THEN [ok |-> FALSE, data |-> raw.data, err |-> "SchemaError",
          applied |-> << >>]
  ELSE
    LET d == IF cfg.schema THEN safeParse(raw.data).data ELSE raw.data
    IN  IF dataVersionOf(raw) < cfg.version
          THEN runMigrations(cfg.migrations, dataVersionOf(raw) + 1,
                             cfg.version, d, << >>)
          ELSE [ok |-> TRUE, data |-> d, err |-> "none", applied |-> << >>]

deserializeWithValidation(cfg, raw) ==
  IF raw.kind = "garbage"
    THEN [ok |-> FALSE, data |-> 0, err |-> "ParseError", applied |-> << >>]
  ELSE
    LET m == IF dataVersionOf(raw) < cfg.version
               THEN runMigrations(cfg.migrations, dataVersionOf(raw) + 1,
                                  cfg.version, raw.data, << >>)
               ELSE [ok |-> TRUE, data |-> raw.data, err |-> "none",
                     applied |-> << >>]
    IN  IF ~m.ok THEN m
        ELSE IF cfg.schema
          THEN IF safeParse(m.data).success
                 THEN [m EXCEPT !.data = safeParse(m.data).data]
                 ELSE [m EXCEPT !.ok = FALSE, !.err = "SchemaError"]
          ELSE m

(* ------------------------------------------------------------------ *)
(* State                                                               *)
(* ------------------------------------------------------------------ *)

VARIABLES
  cfg,                  \* the options the atom was constructed with
  stored,               \* the string the adapter holds under the key
  value,                \* the atom's in-memory value (a.get())
  pc,                   \* where the hydration sequence (a.ready) stands
  hydErr,               \* the error caught by the hydration sequence
  ready,                \* the state of the promise a.ready
  isHydrationComplete,  \* let isHydrationComplete
  isFlushing,           \* let isFlushing
  subscribed,           \* the write listener is subscribed to the atom
  debouncer,            \* let debouncer: "undefined", or a timer handle
  timers,               \* the captured values of the pending timeouts
  calls,                \* every storage.setItem call, in call order
  last,                 \* the public operation called or settled last
  opsLeft,              \* public operations the caller has yet to call
  notified,             \* notifications received by an outside subscriber
  hlog                  \* the adapter, migration and producer calls of the hydration

vars ==
  << cfg, stored, value, pc, hydErr, ready, isHydrationComplete, isFlushing,
     subscribed, debouncer, timers, calls, last, opsLeft, notified, hlog >>

\* a.ready while the hydration sequence runs, and once it has ended
Pending == [state |-> "pending", err |-> "none"]

Resolved == [state |-> "resolved", err |-> "none"]

Rejected(e) == [state |-> "rejected", err |-> e]

\* no public operation has been called yet
NoOp == [op |-> "none", arg |-> 0, res |-> "ok", err |-> "none", call |-> 0]

OpResult(op, arg, res, err, call) ==
  [op |-> op, arg |-> arg, res |-> res, err |-> err, call |-> call]

\* one storage.setItem(key, serializeWithVersion(v)) call made by write(v);
\* kind names the caller, arg and committed belong to a setAndFlush call
SetItemCall(kind, v, arg, committed) ==
  [kind |-> kind, payload |-> serializeWithVersion(cfg.version, v),
   st |-> "inflight", arg |-> arg, committed |-> committed]

\* a write that stores the bare value, with no envelope
write_unversioned(kind, v, arg, committed, cs) ==
  Append(cs, [SetItemCall(kind, v, arg, committed) EXCEPT !.payload = Legacy(v)])

\* write(value): the setItem call is made before write first suspends
write(kind, v, arg, committed, cs) == Append(cs, SetItemCall(kind, v, arg, committed))

\* a subscription made in the constructor instead of the then callback
SubscribedAtConstruction_early == TRUE

\* whether the write listener is subscribed when the constructor returns
SubscribedAtConstruction == FALSE

\* the state persistentAtom(initial, opts) returns the atom in: a.ready has
\* run to `await storage.getItem(key)`
Constructed ==
  /\ value = initial
  /\ pc = "reading"
  /\ hydErr = "none"
  /\ ready = Pending
  /\ isHydrationComplete = FALSE
  /\ isFlushing = FALSE
  /\ subscribed = SubscribedAtConstruction
  /\ debouncer = "undefined"
  /\ timers = << >>
  /\ calls = << >>
  /\ last = NoOp
  /\ notified = 0
  /\ hlog = << "getItem" >>

Init ==
  /\ \/ cfg \in HydrationConfigs /\ stored \in StoredInit
        /\ opsLeft = MaxHydrationOps
     \/ cfg \in WriteConfigs /\ stored \in WriteStoredInit
        /\ opsLeft = MaxOps
  /\ Constructed

\* a constructor that checks the key only
constructorThrows_keyOnly(opts) == ~opts.key

\* `if (!opts?.key) throw`, `if (!opts?.storage) throw`
constructorThrows(opts) == ~opts.key \/ ~opts.storage

\* the options of the construction specification: those of HydrationConfigs,
\* with or without a key and a storage adapter
ConstructConfigs ==
  [ debounce     : BOOLEAN,
    schema       : BOOLEAN,
    isEqual      : {FALSE},
    onCorruption : BOOLEAN,
    filePath     : BOOLEAN,
    createBackup : BOOLEAN,
    version      : {DefaultVersion, 2},
    migrations   : {migrationKeys},
    key          : BOOLEAN,
    storage      : BOOLEAN ]

\* the constructor threw: no atom exists and a.ready was never started
NotConstructed ==
  /\ value = initial
  /\ pc = "threw"
  /\ hydErr = "none"
  /\ ready = Pending
  /\ isHydrationComplete = FALSE
  /\ isFlushing = FALSE
  /\ subscribed = FALSE
  /\ debouncer = "undefined"
  /\ timers = << >>
  /\ calls = << >>
  /\ last = NoOp
  /\ notified = 0
  /\ hlog = << >>

\* persistentAtom(initial, opts) is called with any of ConstructConfigs; the
\* caller of a constructed atom awaits a.ready and calls no public operation
InitConstruct ==
  /\ cfg \in ConstructConfigs
  /\ stored \in StoredInit
  /\ opsLeft = 0
  /\ IF constructorThrows(cfg) THEN NotConstructed ELSE Constructed

\* the atoms of the decoding specification: the caller awaits a.ready and
\* calls no public operation
InitDecode ==
  /\ cfg \in DecodeConfigs
  /\ stored \in DecodeStoredInit
  /\ opsLeft = 0
  /\ Constructed

(* ------------------------------------------------------------------ *)
(* The write subscription and the debounce timer                       *)
(* ------------------------------------------------------------------ *)

\* the scheduler's part of the state, threaded through one job
Sched == [calls |-> calls, timers |-> timers, debouncer |-> debouncer]

\* a clearTimeout that cancels nothing
clearTimeout_noop(tm, deb) == tm

\* clearTimeout(debouncer): cancels the timeout the handle names, the one
\* armed last, if it has not fired
clearTimeout(tm, deb) ==
  IF deb = "live" THEN SubSeq(tm, 1, Len(tm) - 1) ELSE tm

\* a listener without the `if (isFlushing) return` guard
listener_unguarded(flushing, v, s) ==
  IF ~cfg.debounce
    THEN [s EXCEPT !.calls = write("auto", v, 0, FALSE, @)]
    ELSE [s EXCEPT !.timers = Append(clearTimeout(@, s.debouncer), v),
                   !.debouncer = "live"]

\* a listener that leaves a pending timer as it is and arms one only when
\* none is pending
listener_keepsPending(flushing, v, s) ==
  IF flushing THEN s
  ELSE IF ~cfg.debounce
    THEN [s EXCEPT !.calls = write("auto", v, 0, FALSE, @)]
    ELSE IF s.timers # << >> THEN s
    ELSE [s EXCEPT !.timers = Append(@, v), !.debouncer = "live"]

\* a listener that arms a new timer without cancelling the outstanding one
listener_rearms(flushing, v, s) ==
  IF flushing THEN s
  ELSE IF ~cfg.debounce
    THEN [s EXCEPT !.calls = write("auto", v, 0, FALSE, @)]
    ELSE [s EXCEPT !.timers = Append(@, v), !.debouncer = "live"]

\* the listener given to a.subscribe, called with the value v
listener(flushing, v, s) ==
  IF flushing THEN s
  ELSE IF ~cfg.debounce
    THEN [s EXCEPT !.calls = write("auto", v, 0, FALSE, @)]
    ELSE [s EXCEPT !.timers = Append(clearTimeout(@, s.debouncer), v),
                   !.debouncer = "live"]

\* nanostores notifies the store's listeners when set changes the value
notifies(old, new) == old # new

\* baseSet(next): what the write listener does with the notification
baseSetSched(flushing, next, s) ==
  IF notifies(value, next) /\ subscribed THEN listener(flushing, next, s) ELSE s

\* baseSet(next): the notifications an outside subscriber has received
baseSetNotified(next) ==
  IF notifies(value, next) THEN notified + 1 ELSE notified

\* a flush that writes and leaves the pending timer alone
flushSched_keepsTimer(kind, v, arg, committed, s) ==
  [s EXCEPT !.calls = write(kind, v, arg, committed, @)]

\* a.flush up to its await: clears the timer, then write(a.get())
flushSched(kind, v, arg, committed, s) ==
  [ calls     |-> write(kind, v, arg, committed, s.calls),
    timers    |-> IF s.debouncer # "undefined"
                    THEN clearTimeout(s.timers, s.debouncer) ELSE s.timers,
    debouncer |-> "undefined" ]

SetSched(s) ==
  /\ calls' = s.calls
  /\ timers' = s.timers
  /\ debouncer' = s.debouncer

(* ------------------------------------------------------------------ *)
(* Hydration: the async body of a.ready and its then callback          *)
(* ------------------------------------------------------------------ *)

\* the values the fallback producer may return
Fallbacks == {2, 3}

\* the catch block of the producer rethrowing what it caught (handlerError)
\* in place of the hydration error
rethrown_handlerError(error) == "HandlerError"

\* a catch block that throws an error of its own
rethrown_replaced(error) == "HydrationError"

\* `throw error` at the end of the catch block: what a.ready rejects with
rethrown(error) == error

\* a catch block that, without a corruption handler, ends without
\* rethrowing and leaves a.ready unsettled
afterBackup_hangs(error, log) ==
  IF cfg.onCorruption
    THEN /\ pc' = "fallback"
         /\ ready' = ready
         /\ hlog' = Append(log, "onCorruption")
    ELSE /\ pc' = "failed"
         /\ ready' = ready
         /\ hlog' = log

\* the catch block after `await createBackup()`: the producer is called when
\* configured, otherwise the caught error is thrown again
afterBackup(error, log) ==
  IF cfg.onCorruption
    THEN /\ pc' = "fallback"
         /\ ready' = ready
         /\ hlog' = Append(log, "onCorruption")
    ELSE /\ pc' = "failed"
         /\ ready' = Rejected(rethrown(error))
         /\ hlog' = log

\* a createBackup() that does not look for the adapter's filePath
callsBackup_withoutPath == cfg.createBackup

\* createBackup() calls the adapter only with a filePath and a createBackup
callsBackup == cfg.filePath /\ cfg.createBackup

\* the catch block from its start to its first suspension
enterRecovery(error, log) ==
  /\ hydErr' = error
  /\ IF callsBackup
       THEN /\ pc' = "backup"
            /\ ready' = ready
            /\ hlog' = Append(log, "createBackup")
       ELSE afterBackup(error, log)
  /\ UNCHANGED << value, notified, calls, timers, debouncer >>

\* a test that takes the absence of a record for a record
hasRecord_always(raw) == TRUE

\* `if (raw != null)`: getItem returned a string
hasRecord(raw) == raw # Absent

\* storage.getItem(key) settles: the try block runs, or the catch block starts
GetItemSettles ==
  /\ pc = "reading"
  /\ \E rejects \in BOOLEAN :
       IF rejects THEN enterRecovery("ReadError", hlog)
       ELSE IF ~hasRecord(stored)
         THEN /\ pc' = "bodyDone"
              /\ UNCHANGED << value, notified, calls, timers, debouncer,
                              hydErr, ready, hlog >>
         ELSE LET r == deserializeWithValidation(cfg, stored)
              IN  IF r.ok
                    THEN /\ value' = r.data
                         /\ notified' = baseSetNotified(r.data)
                         /\ SetSched(baseSetSched(isFlushing, r.data, Sched))
                         /\ pc' = "bodyDone"
                         /\ hlog' = Append(hlog \o r.applied, "commit")
                         /\ UNCHANGED << hydErr, ready >>
                    ELSE enterRecovery(r.err, hlog \o r.applied)
  /\ UNCHANGED << cfg, stored, isHydrationComplete, isFlushing, subscribed,
                  last, opsLeft >>

\* storage.createBackup(filePath) settles; a rejection is caught and logged
BackupSettles ==
  /\ pc = "backup"
  /\ \E rejects \in BOOLEAN :
       afterBackup(hydErr, IF rejects THEN Append(hlog, "backupFailed") ELSE hlog)
  /\ UNCHANGED << cfg, stored, value, hydErr, isHydrationComplete, isFlushing,
                  subscribed, debouncer, timers, calls, last, opsLeft, notified >>

\* onCorruption(error) settles: its value is committed and written, or its
\* failure is caught and the hydration error thrown again
FallbackSettles ==
  /\ pc = "fallback"
  /\ \/ \E fallbackData \in Fallbacks :
          LET s == baseSetSched(isFlushing, fallbackData, Sched)
          IN  /\ value' = fallbackData
              /\ notified' = baseSetNotified(fallbackData)
              /\ calls' = write("recovery", fallbackData, 0, FALSE, s.calls)
              /\ timers' = s.timers
              /\ debouncer' = s.debouncer
              /\ pc' = "recoveryWrite"
              /\ hlog' = Append(Append(hlog, "commit"), "setItem")
              /\ ready' = ready
     \/ /\ pc' = "failed"
        /\ ready' = Rejected(rethrown(hydErr))
        /\ UNCHANGED << value, notified, calls, timers, debouncer, hlog >>
  /\ UNCHANGED << cfg, stored, hydErr, isHydrationComplete, isFlushing,
                  subscribed, last, opsLeft >>

\* a settled setItem call: acknowledged calls replace the stored string
settle(i, ok) == [calls EXCEPT ![i].st = IF ok THEN "ack" ELSE "fail"]

storedAfter(i, ok) == IF ok THEN calls[i].payload ELSE stored

\* `await write(fallbackData)` settles: return, or the catch of handlerError
RecoveryWriteSettles ==
  /\ pc = "recoveryWrite"
  /\ \E i \in 1..Len(calls), ok \in BOOLEAN :
       /\ calls[i].kind = "recovery"
       /\ calls[i].st = "inflight"
       /\ calls' = settle(i, ok)
       /\ stored' = storedAfter(i, ok)
       /\ IF ok
            THEN pc' = "bodyDone" /\ ready' = ready
            ELSE pc' = "failed" /\ ready' = Rejected(rethrown(hydErr))
  /\ UNCHANGED << cfg, value, hydErr, isHydrationComplete, isFlushing,
                  subscribed, debouncer, timers, last, opsLeft, notified, hlog >>

\* a then callback that starts the hydration sequence again
ReadyThen_rehydrates ==
  /\ pc = "bodyDone"
  /\ pc' = "reading"
  /\ hlog' = Append(hlog, "getItem")
  /\ UNCHANGED << cfg, stored, value, hydErr, ready, isHydrationComplete,
                  isFlushing, subscribed, debouncer, timers, calls, last,
                  opsLeft, notified >>

\* a then callback that subscribes with listen, which does not call the
\* listener until the value changes
ReadyThen_listens ==
  /\ pc = "bodyDone"
  /\ isHydrationComplete' = TRUE
  /\ subscribed' = TRUE
  /\ pc' = "armed"
  /\ UNCHANGED << cfg, stored, value, hydErr, ready, isFlushing, last,
                  opsLeft, notified, hlog, calls, timers, debouncer >>

\* a then callback that subscribes the write listener and leaves the
\* flag as it was
ReadyThen_leavesFlag ==
  /\ pc = "bodyDone"
  /\ subscribed' = TRUE
  /\ SetSched(listener(isFlushing, value, Sched))
  /\ pc' = "armed"
  /\ UNCHANGED << cfg, stored, value, hydErr, ready, isHydrationComplete,
                  isFlushing, last, opsLeft, notified, hlog >>

\* the then callback: sets the flag and subscribes the write listener, which
\* nanostores calls at once with the current value
ReadyThen ==
  /\ pc = "bodyDone"
  /\ isHydrationComplete' = TRUE
  /\ subscribed' = TRUE
  /\ SetSched(listener(isFlushing, value, Sched))
  /\ pc' = "armed"
  /\ UNCHANGED << cfg, stored, value, hydErr, ready, isFlushing, last,
                  opsLeft, notified, hlog >>

\* the then callback has returned: the promise a.ready resolves
ReadyResolves ==
  /\ pc = "armed"
  /\ pc' = "hydrated"
  /\ ready' = Resolved
  /\ UNCHANGED << cfg, stored, value, hydErr, isHydrationComplete, isFlushing,
                  subscribed, debouncer, timers, calls, last, opsLeft,
                  notified, hlog >>

(* ------------------------------------------------------------------ *)
(* Public operations                                                   *)
(* ------------------------------------------------------------------ *)

\* a public operation is called from a job of its own, never from inside
\* the then callback
mayCall == opsLeft > 0 /\ pc # "armed"

\* a guard that lets every call through
setBlocked_never == FALSE

\* `if (!isHydrationComplete) throw`
setBlocked == ~isHydrationComplete

\* a set that ignores a value the schema rejects instead of throwing
setOutcome_silent(next) ==
  IF setBlocked
    THEN [threw |-> TRUE, err |-> "NotReady", v |-> value, commit |-> FALSE]
  ELSE IF cfg.schema /\ ~safeParse(next).success
    THEN [threw |-> FALSE, err |-> "none", v |-> value, commit |-> FALSE]
  ELSE LET n == IF cfg.schema THEN safeParse(next).data ELSE next
       IN  IF cfg.isEqual /\ isEqualFn(value, n)
             THEN [threw |-> FALSE, err |-> "none", v |-> value, commit |-> FALSE]
             ELSE [threw |-> FALSE, err |-> "none", v |-> n, commit |-> TRUE]

\* a set that never consults isEqual
setOutcome_noIsEqual(next) ==
  IF setBlocked
    THEN [threw |-> TRUE, err |-> "NotReady", v |-> value, commit |-> FALSE]
  ELSE IF cfg.schema /\ ~safeParse(next).success
    THEN [threw |-> TRUE, err |-> "SchemaError", v |-> value, commit |-> FALSE]
  ELSE [threw |-> FALSE, err |-> "none",
        v |-> IF cfg.schema THEN safeParse(next).data ELSE next,
        commit |-> TRUE]

\* a.set(next) up to baseSet: the error thrown, or the value a.get() returns
\* afterwards and whether baseSet was called
setOutcome(next) ==
  IF setBlocked
    THEN [threw |-> TRUE, err |-> "NotReady", v |-> value, commit |-> FALSE]
  ELSE IF cfg.schema /\ ~safeParse(next).success
    THEN [threw |-> TRUE, err |-> "SchemaError", v |-> value, commit |-> FALSE]
  ELSE LET n == IF cfg.schema THEN safeParse(next).data ELSE next
       IN  IF cfg.isEqual /\ isEqualFn(value, n)
             THEN [threw |-> FALSE, err |-> "none", v |-> value, commit |-> FALSE]
             ELSE [threw |-> FALSE, err |-> "none", v |-> n, commit |-> TRUE]

\* a.set(next)
Set(next) ==
  /\ mayCall
  /\ LET o == setOutcome(next)
     IN  /\ value' = o.v
         /\ notified' = IF o.commit THEN baseSetNotified(o.v) ELSE notified
         /\ SetSched(IF o.commit THEN baseSetSched(isFlushing, o.v, Sched)
                     ELSE Sched)
         /\ last' = OpResult("set", next, IF o.threw THEN "throw" ELSE "ok",
                             o.err, 0)
  /\ opsLeft' = opsLeft - 1
  /\ UNCHANGED << cfg, stored, pc, hydErr, ready, isHydrationComplete,
                  isFlushing, subscribed, hlog >>

\* a.flush() up to `await write(a.get())`
Flush ==
  /\ mayCall
  /\ LET s == flushSched("flush", value, 0, FALSE, Sched)
     IN  /\ SetSched(s)
         /\ last' = OpResult("flush", 0, "pending", "none", Len(s.calls))
  /\ opsLeft' = opsLeft - 1
  /\ UNCHANGED << cfg, stored, value, pc, hydErr, ready, isHydrationComplete,
                  isFlushing, subscribed, notified, hlog >>

\* a setAndFlush with no finally block: a throwing set leaves isFlushing set
SetAndFlush_noFinally(next) ==
  /\ mayCall
  /\ LET o == setOutcome(next)
         s == flushSched("setAndFlush", o.v, next, o.commit,
                         IF o.commit THEN baseSetSched(TRUE, o.v, Sched)
                         ELSE Sched)
     IN  /\ isFlushing' = TRUE
         /\ IF o.threw
              THEN /\ last' = OpResult("setAndFlush", next, "throw", o.err, 0)
                   /\ UNCHANGED << value, notified, calls, timers, debouncer >>
              ELSE /\ value' = o.v
                   /\ notified' = IF o.commit THEN baseSetNotified(o.v)
                                  ELSE notified
                   /\ SetSched(s)
                   /\ last' = OpResult("setAndFlush", next, "pending", "none",
                                       Len(s.calls))
  /\ opsLeft' = opsLeft - 1
  /\ UNCHANGED << cfg, stored, pc, hydErr, ready, isHydrationComplete,
                  subscribed, hlog >>

\* a.setAndFlush(next) up to `await a.flush()`, or to its finally block when
\* a.set throws
SetAndFlush(next) ==
  /\ mayCall
  /\ LET o == setOutcome(next)
         s == flushSched("setAndFlush", o.v, next, o.commit,
                         IF o.commit THEN baseSetSched(TRUE, o.v, Sched)
                         ELSE Sched)
     IN  IF o.threw
           THEN /\ isFlushing' = FALSE
                /\ last' = OpResult("setAndFlush", next, "throw", o.err, 0)
                /\ UNCHANGED << value, notified, calls, timers, debouncer >>
           ELSE /\ isFlushing' = TRUE
                /\ value' = o.v
                /\ notified' = IF o.commit THEN baseSetNotified(o.v)
                               ELSE notified
                /\ SetSched(s)
                /\ last' = OpResult("setAndFlush", next, "pending", "none",
                                    Len(s.calls))
  /\ opsLeft' = opsLeft - 1
  /\ UNCHANGED << cfg, stored, pc, hydErr, ready, isHydrationComplete,
                  subscribed, hlog >>

(* ------------------------------------------------------------------ *)
(* Timers and settled writes                                           *)
(* ------------------------------------------------------------------ *)

RemoveAt(seq, i) == SubSeq(seq, 1, i - 1) \o SubSeq(seq, i + 1, Len(seq))

\* a pending timeout fires: write(value) with the value it captured
TimerFires ==
  /\ pc # "armed"
  /\ \E i \in 1..Len(timers) :
       /\ calls' = write("timer", timers[i], 0, FALSE, calls)
       /\ timers' = RemoveAt(timers, i)
       /\ debouncer' = IF i = Len(timers) /\ debouncer = "live"
                         THEN "stale" ELSE debouncer
  /\ UNCHANGED << cfg, stored, value, pc, hydErr, ready, isHydrationComplete,
                  isFlushing, subscribed, last, opsLeft, notified, hlog >>

\* a subscription whose failed write ends the subscription
AutoWriteSettles_unsubscribes ==
  /\ pc # "armed"
  /\ \E i \in 1..Len(calls), ok \in BOOLEAN :
       /\ calls[i].kind \in {"auto", "timer"}
       /\ calls[i].st = "inflight"
       /\ calls' = settle(i, ok)
       /\ stored' = storedAfter(i, ok)
       /\ subscribed' = (ok /\ subscribed)
  /\ UNCHANGED << cfg, value, pc, hydErr, ready, isHydrationComplete,
                  isFlushing, debouncer, timers, last, opsLeft,
                  notified, hlog >>

\* a subscription whose failed write puts the initial value back
AutoWriteSettles_rollsBack ==
  /\ pc # "armed"
  /\ \E i \in 1..Len(calls), ok \in BOOLEAN :
       /\ calls[i].kind \in {"auto", "timer"}
       /\ calls[i].st = "inflight"
       /\ calls' = settle(i, ok)
       /\ stored' = storedAfter(i, ok)
       /\ value' = IF ok THEN value ELSE initial
       /\ notified' = IF ok \/ value = initial THEN notified ELSE notified + 1
  /\ UNCHANGED << cfg, pc, hydErr, ready, isHydrationComplete,
                  isFlushing, subscribed, debouncer, timers, last, opsLeft,
                  hlog >>

\* a subscription-triggered write settles; a rejection is caught and logged
AutoWriteSettles ==
  /\ pc # "armed"
  /\ \E i \in 1..Len(calls), ok \in BOOLEAN :
       /\ calls[i].kind \in {"auto", "timer"}
       /\ calls[i].st = "inflight"
       /\ calls' = settle(i, ok)
       /\ stored' = storedAfter(i, ok)
  /\ UNCHANGED << cfg, value, pc, hydErr, ready, isHydrationComplete,
                  isFlushing, subscribed, debouncer, timers, last, opsLeft,
                  notified, hlog >>

\* a write whose rejection is swallowed before it reaches the caller
awaited_swallowed(op, arg, i, ok) == OpResult(op, arg, "ok", "none", i)

\* a write whose rejection reaches the caller as another error
awaited_wrapped(op, arg, i, ok) ==
  IF ok THEN OpResult(op, arg, "ok", "none", i)
  ELSE OpResult(op, arg, "throw", "FlushError", i)

\* what the caller of flush or setAndFlush gets when the write settles
awaited(op, arg, i, ok) ==
  IF ok THEN OpResult(op, arg, "ok", "none", i)
  ELSE OpResult(op, arg, "throw", "WriteError", i)

\* `await write(a.get())` of a flush() settles
FlushSettles ==
  /\ pc # "armed"
  /\ \E i \in 1..Len(calls), ok \in BOOLEAN :
       /\ calls[i].kind = "flush"
       /\ calls[i].st = "inflight"
       /\ calls' = settle(i, ok)
       /\ stored' = storedAfter(i, ok)
       /\ last' = awaited("flush", 0, i, ok)
  /\ UNCHANGED << cfg, value, pc, hydErr, ready, isHydrationComplete,
                  isFlushing, subscribed, debouncer, timers, opsLeft,
                  notified, hlog >>

\* `await a.flush()` of a setAndFlush(next) settles: the finally block runs
SetAndFlushSettles ==
  /\ pc # "armed"
  /\ \E i \in 1..Len(calls), ok \in BOOLEAN :
       /\ calls[i].kind = "setAndFlush"
       /\ calls[i].st = "inflight"
       /\ calls' = settle(i, ok)
       /\ stored' = storedAfter(i, ok)
       /\ last' = awaited("setAndFlush", calls[i].arg, i, ok)
  /\ isFlushing' = FALSE
  /\ UNCHANGED << cfg, value, pc, hydErr, ready, isHydrationComplete,
                  subscribed, debouncer, timers, opsLeft, notified, hlog >>

(* ------------------------------------------------------------------ *)
(* Specification                                                       *)
(* ------------------------------------------------------------------ *)

Next ==
  \/ GetItemSettles
  \/ BackupSettles
  \/ FallbackSettles
  \/ RecoveryWriteSettles
  \/ ReadyThen
  \/ ReadyResolves
  \/ \E next \in Values : Set(next)
  \/ Flush
  \/ \E next \in Values : SetAndFlush(next)
  \/ TimerFires
  \/ AutoWriteSettles
  \/ FlushSettles
  \/ SetAndFlushSettles

Spec == Init /\ [][Next]_vars

\* the jobs of an atom whose caller calls no public operation: the
\* hydration sequence, the writes of the subscription and their settling
NextDecode ==
  \/ GetItemSettles
  \/ BackupSettles
  \/ FallbackSettles
  \/ RecoveryWriteSettles
  \/ ReadyThen
  \/ ReadyResolves
  \/ TimerFires
  \/ AutoWriteSettles

\* hydration of every stored record of DecodeStoredInit under every
\* option set of DecodeConfigs
SpecDecode == InitDecode /\ [][NextDecode]_vars

\* construction with every option set of ConstructConfigs, then hydration
SpecConstruct == InitConstruct /\ [][NextDecode]_vars

\* The event loop runs every job that is ready: a settled promise resumes
\* the function awaiting it, a then callback runs once its promise has
\* resolved, a timeout fires once its delay has passed.  The adapter and the
\* fallback producer are taken to settle every call.
Fairness ==
  /\ WF_vars(GetItemSettles)
  /\ WF_vars(BackupSettles)
  /\ WF_vars(FallbackSettles)
  /\ WF_vars(RecoveryWriteSettles)
  /\ WF_vars(ReadyThen)
  /\ WF_vars(ReadyResolves)
  /\ WF_vars(TimerFires)
  /\ WF_vars(AutoWriteSettles)

\* the decoding specification under that scheduling
SpecDecodeFair == SpecDecode /\ Fairness

(* ------------------------------------------------------------------ *)
(* Steps and calls the properties speak about                          *)
(* ------------------------------------------------------------------ *)

\* this step is a call of a.set, a.flush, a.setAndFlush
SetStep == opsLeft' = opsLeft - 1 /\ last'.op = "set"

FlushStep == opsLeft' = opsLeft - 1 /\ last'.op = "flush"

SetAndFlushStep == opsLeft' = opsLeft - 1 /\ last'.op = "setAndFlush"

\* this step makes a storage.setItem call
SetItemStep == Len(calls') = Len(calls) + 1

\* the calls made by the write subscription, at once or from a timer
AutoKinds == {"auto", "timer"}

AutoCalls == {i \in 1..Len(calls) : calls[i].kind \in AutoKinds}

\* this step is the rejection of a subscription-triggered setItem call
AutoWriteFails ==
  \E i \in AutoCalls : calls[i].st = "inflight" /\ calls'[i].st = "fail"

\* the value a.set(next) commits when it commits
Committed(next) == IF cfg.schema THEN safeParse(next).data ELSE next

(* ------------------------------------------------------------------ *)
(* C1                                                                  *)
(* ------------------------------------------------------------------ *)

\* C1: a set(next) called while hydration has not completed throws the
\* not-ready error, leaves the in-memory value unchanged, notifies no
\* subscriber, makes no setItem call and arms no timer.
C1_NoPreHydrationSet ==
  [][ (SetStep /\ ~isHydrationComplete) =>
        /\ last'.res = "throw" /\ last'.err = "NotReady"
        /\ value' = value
        /\ notified' = notified
        /\ calls' = calls
        /\ timers' = timers ]_vars

\* a set was rejected as not ready while the recovery was under way
C1_Witness ==
  /\ last.op = "set" /\ last.res = "throw" /\ last.err = "NotReady"
  /\ pc \in {"backup", "fallback", "recoveryWrite"}

(* ------------------------------------------------------------------ *)
(* C2                                                                  *)
(* ------------------------------------------------------------------ *)

\* C2 as stated: every subscription-triggered setItem call is made after the
\* promise a.ready has resolved.
C2_AutoWriteAfterReadyResolved ==
  \A i \in AutoCalls : ready.state = "resolved"

\* C2 as amended: every subscription-triggered setItem call is made after
\* the hydration sequence has ended and the then callback has set the flag
\* and subscribed; a debounced one is made after a.ready has resolved, an
\* immediate one may be made inside the then callback, before it resolves.
C2_AutoWriteAfterHydration ==
  /\ subscribed => isHydrationComplete
  /\ isHydrationComplete => pc \in {"armed", "hydrated"}
  /\ \A i \in AutoCalls :
       /\ isHydrationComplete
       /\ subscribed
       /\ calls[i].kind = "timer" => ready.state = "resolved"
  /\ timers # << >> => isHydrationComplete

\* the then callback has made the first automatic write, a.ready is pending
C2_Witness ==
  /\ pc = "armed" /\ ready.state = "pending"
  /\ AutoCalls # {}
  /\ hlog = << "getItem", "commit" >>

(* ------------------------------------------------------------------ *)
(* C3                                                                  *)
(* ------------------------------------------------------------------ *)

\* C3: after hydration every set or setAndFlush that changes the in-memory
\* value makes a setItem call for the new value or arms the debounce timer
\* with it, in every interleaving.
C3_CommitTriggersScheduler ==
  [][ ((SetStep \/ SetAndFlushStep) /\ isHydrationComplete /\ value' # value) =>
        \/ /\ SetItemStep
           /\ calls'[Len(calls')].payload = serializeWithVersion(cfg.version, value')
        \/ /\ timers' # << >>
           /\ timers'[Len(timers')] = value'
           /\ debouncer' = "live" ]_vars

(* ------------------------------------------------------------------ *)
(* C4                                                                  *)
(* ------------------------------------------------------------------ *)

\* C4: in debounce mode, with no setAndFlush in progress, a set made after
\* hydration makes no setItem call; when it changes the value it leaves
\* exactly one timer pending, holding the new value, and otherwise leaves
\* the pending timer as it was.  A timer that fires makes exactly one
\* setItem call, whose payload is the envelope of the current in-memory
\* value (the last value committed), and leaves no timer pending.
C4_DebounceCollapse ==
  [][ /\ (SetStep /\ cfg.debounce /\ isHydrationComplete /\ ~isFlushing) =>
           /\ calls' = calls
           /\ IF value' # value THEN timers' = << value' >>
                                ELSE timers' = timers
           /\ Len(timers') <= 1
      /\ (SetItemStep /\ calls'[Len(calls')].kind = "timer") =>
           /\ calls'[Len(calls')].payload = serializeWithVersion(cfg.version, value)
           /\ value' = value
           /\ timers' = << >> ]_vars

\* two sets were made on a hydrated atom, then the one timer fired and wrote
\* the value of the second
C4_Witness ==
  /\ cfg.debounce /\ isHydrationComplete
  /\ opsLeft = 0 /\ last.op = "set" /\ last.res = "ok"
  /\ value = 2
  /\ timers = << >>
  /\ Len(calls) = 1
  /\ calls[1].kind = "timer"
  /\ calls[1].payload = Envelope(DefaultVersion, 2)

(* ------------------------------------------------------------------ *)
(* C5                                                                  *)
(* ------------------------------------------------------------------ *)

C6_FlushCancelsAndWrites ==
  /\ [][ FlushStep =>
           /\ timers' = << >>
           /\ debouncer' = "undefined"
           /\ value' = value
           /\ calls' = Append(calls,
                [kind |-> "flush",
                 payload |-> serializeWithVersion(cfg.version, value),
                 st |-> "inflight", arg |-> 0, committed |-> FALSE])
           /\ last'.res = "pending" /\ last'.call = Len(calls') ]_vars
  /\ [] (last.op = "flush" /\ last.res = "ok" =>
           /\ last.call \in 1..Len(calls)
           /\ calls[last.call].kind = "flush"
           /\ calls[last.call].st = "ack")

\* a set armed the timer on a hydrated atom, then flush() was called: the
\* timer is gone without having fired, and the flush has returned
C6_Witness ==
  /\ cfg.debounce /\ isHydrationComplete
  /\ cfg \in WriteConfigs /\ opsLeft = 0
  /\ last.op = "flush" /\ last.res = "ok"
  /\ value = 1
  /\ timers = << >>
  /\ Len(calls) = 1
  /\ calls[1].payload = Envelope(DefaultVersion, 1)

(* ------------------------------------------------------------------ *)
(* C7                                                                  *)
(* ------------------------------------------------------------------ *)

\* C7: when the setItem call of a flush() or a setAndFlush() is rejected the
\* call rejects with the write error; when a subscription-triggered setItem
\* call is rejected nothing reaches a caller, and set never throws the write
\* error.
C7_FlushPropagatesWriteError ==
  /\ [] (last.op \in {"flush", "setAndFlush"} /\ last.call \in 1..Len(calls)
           /\ calls[last.call].st = "fail" =>
             last.res = "throw" /\ last.err = "WriteError")
  /\ [] (last.op = "set" => last.err \in {"none", "NotReady", "SchemaError"})
  /\ [][ AutoWriteFails => last' = last ]_vars

\* a subscription-triggered write has failed, and a flush() has rejected
C7_Witness ==
  /\ last.op = "flush" /\ last.res = "throw" /\ last.err = "WriteError"
  /\ \E i \in AutoCalls : calls[i].st = "fail"

(* ------------------------------------------------------------------ *)
(* C8                                                                  *)
(* ------------------------------------------------------------------ *)

\* C8: the rejection of a subscription-triggered setItem call changes
\* neither the in-memory value, nor what subscribers were notified of, nor
\* the subscription, the flags and the timer; and after such a rejection a
\* set that changes the value, made with no setAndFlush in progress, again
\* makes a setItem call or arms the timer for the new value.
C8_FailedAutoWriteKeepsValue ==
  [][ /\ AutoWriteFails =>
           /\ value' = value
           /\ notified' = notified
           /\ subscribed' = subscribed
           /\ isHydrationComplete' = isHydrationComplete
           /\ isFlushing' = isFlushing
           /\ timers' = timers /\ debouncer' = debouncer
           /\ stored' = stored
      /\ (SetStep /\ value' # value /\ ~isFlushing
            /\ \E i \in AutoCalls : calls[i].st = "fail") =>
           \/ /\ SetItemStep
              /\ calls'[Len(calls')].payload =
                   serializeWithVersion(cfg.version, value')
           \/ timers' = << value' >> ]_vars

\* the write triggered by a first set failed; the value it set is still
\* there, and a second set has triggered a write of its own
C8_Witness ==
  /\ ~cfg.debounce /\ opsLeft = 0
  /\ last.op = "set" /\ last.res = "ok"
  /\ Len(calls) = 3
  /\ calls[2].kind = "auto" /\ calls[2].st = "fail"
  /\ calls[3].kind = "auto"
  /\ calls[3].payload = serializeWithVersion(cfg.version, value)
  /\ value # calls[2].payload.data

(* ------------------------------------------------------------------ *)
(* C9                                                                  *)
(* ------------------------------------------------------------------ *)

\* the stored string could not be parsed and the fallback producer has
\* returned a value, which the catch block committed
RecoveredFromGarbage ==
  /\ hydErr = "ParseError"
  /\ cfg.onCorruption
  /\ \E i \in 1..Len(hlog) : hlog[i] = "commit"

\* the setItem call of the recovery, made by `await write(fallbackData)`
RecoveryCalls == {i \in 1..Len(calls) : calls[i].kind = "recovery"}

\* C9: given a stored string that cannot be parsed and a fallback producer
\* that returned F, a.ready does not reject; when the hydration sequence has
\* ended a.ready resolves with get() = F and an acknowledged setItem call
\* carrying the envelope of F; createBackup was called when the adapter has
\* a filePath and a createBackup.
C9_CorruptionRecovery ==
  RecoveredFromGarbage =>
    /\ ready.state # "rejected"
    /\ pc # "failed"
    /\ \E i \in RecoveryCalls : calls[i].payload.data \in Fallbacks
    /\ pc = "armed" =>
         /\ \E i \in RecoveryCalls :
              /\ calls[i].st = "ack"
              /\ calls[i].payload = serializeWithVersion(cfg.version, value)
         /\ value \in Fallbacks
    /\ callsBackup => \E i \in 1..Len(hlog) : hlog[i] = "createBackup"

(* ------------------------------------------------------------------ *)
(* C10                                                                 *)
(* ------------------------------------------------------------------ *)

\* C10: with no fallback producer, once the hydration sequence has caught an
\* error (a rejected read, a parse failure, a throwing migration, a schema
\* rejection) a.ready never resolves, the atom is never hydrated, and when
\* the sequence has ended a.ready is rejected with the error that was caught.
C10_UnrecoverableFailure ==
  (~cfg.onCorruption /\ hydErr # "none") =>
    /\ hydErr \in {"ReadError", "ParseError", "MigrationError1",
                   "MigrationError2", "SchemaError"}
    /\ pc \in {"backup", "failed"}
    /\ ~isHydrationComplete
    /\ pc = "backup" => ready = Pending
    /\ pc = "failed" => ready = Rejected(hydErr)

\* a.ready was rejected with the error of a throwing migration
C10_Witness ==
  /\ ~cfg.onCorruption
  /\ pc = "failed"
  /\ ready = Rejected("MigrationError2")

(* ------------------------------------------------------------------ *)
(* C11                                                                 *)
(* ------------------------------------------------------------------ *)

\* C11: whenever a.ready is rejected the atom still holds the value given to
\* the constructor and the write subscription was never armed, on every path
\* to the rejection, the one where the fallback producer returned a value and
\* the write of that value failed included.
C11_FailedKeepsInitial ==
  ready.state = "rejected" =>
    /\ value = initial
    /\ ~subscribed
    /\ ~isHydrationComplete

(* ------------------------------------------------------------------ *)
(* C12                                                                 *)
(* ------------------------------------------------------------------ *)

\* the positions of the hydration log where the fallback producer was called
ProducerCalls == {i \in 1..Len(hlog) : hlog[i] = "onCorruption"}

\* the fallback producer was called and its promise rejected (or it threw):
\* the catch block committed nothing and the hydration sequence has ended
ProducerFailed ==
  /\ ProducerCalls # {}
  /\ \A i \in 1..Len(hlog) : hlog[i] # "commit"
  /\ pc = "failed"

\* C12: the fallback producer is called at most once per atom, and when it
\* throws or rejects a.ready is rejected with the error the hydration
\* sequence caught first, never with the producer's error.
C12_ProducerFailureKeepsOriginalError ==
  /\ Cardinality(ProducerCalls) <= 1
  /\ ProducerFailed =>
       /\ hydErr \in {"ReadError", "ParseError", "MigrationError1",
                      "MigrationError2", "SchemaError"}
       /\ ready = Rejected(hydErr)
       /\ ready.err # "HandlerError"

\* the producer failed after a schema rejection of the stored data
C12_Witness ==
  /\ ProducerFailed
  /\ hydErr = "SchemaError"
  /\ ready = Rejected("SchemaError")

(* ------------------------------------------------------------------ *)
(* C13                                                                 *)
(* ------------------------------------------------------------------ *)

\* C13: once hydration has failed every set and setAndFlush throws the
\* not-hydrated error, and no public operation (set, setAndFlush, flush)
\* called after the failure makes a setItem call.
C13_NoWriteAfterFailure ==
  [][pc = "failed" =>
       /\ (SetStep \/ SetAndFlushStep) =>
            /\ last'.res = "throw"
            /\ last'.err = "NotReady"
       /\ Len(calls') = Len(calls)]_vars

(* ------------------------------------------------------------------ *)
(* C14                                                                 *)
(* ------------------------------------------------------------------ *)

SetReturns == SetStep /\ last'.res = "ok"

\* the step changes neither the value, nor the notifications, nor the
\* setItem calls, nor the timers
SilentNoOp ==
  /\ value' = value
  /\ notified' = notified
  /\ calls' = calls
  /\ timers' = timers
  /\ debouncer' = debouncer

\* C15 as stated: on a hydrated atom with isEqual, set(x) where
\* isEqual(current, x) is true is a silent no-op: the value is unchanged, no
\* subscriber is notified, no setItem call is made and a pending timer is
\* neither cancelled nor restarted.
C15_EqualSetIsNoOp ==
  [][(/\ SetReturns
      /\ isHydrationComplete
      /\ cfg.isEqual
      /\ isEqualFn(value, last'.arg)) => SilentNoOp]_vars

\* C15, amended: on a hydrated atom with isEqual, set(x) where isEqual holds
\* between the current value and the value set would commit (the schema's
\* output for x when a schema is configured, x otherwise) is a silent no-op.
C15_EqualCommittedSetIsNoOp ==
  [][(/\ SetReturns
      /\ isHydrationComplete
      /\ cfg.isEqual
      /\ isEqualFn(value, Committed(last'.arg))) => SilentNoOp]_vars

\* a set of a value different from the current one but equal to it by
\* isEqual has returned, with the timer of the earlier value still pending
C15_Witness ==
  /\ cfg.isEqual /\ cfg.debounce
  /\ isHydrationComplete
  /\ last.op = "set" /\ last.res = "ok"
  /\ Committed(last.arg) # value
  /\ isEqualFn(value, Committed(last.arg))
  /\ timers = << value >>
  /\ opsLeft = 0

(* ------------------------------------------------------------------ *)
(* Decoding: what the properties of the codec speak about              *)
(* ------------------------------------------------------------------ *)

\* the entries of the hydration log that are calls of a migration
MigrationEvents == {migrationEvent(v) : v \in 1..MaxVersion}

IsMigrationEvent(e) == e \in MigrationEvents

\* the migrations the hydration called and that returned, in call order
AppliedLog == SelectSeq(hlog, IsMigrationEvent)

\* the adapter still holds the string getItem returned: no setItem call has
\* been acknowledged
StoredAsRead == \A i \in 1..Len(calls) : calls[i].st # "ack"

\* getItem has returned the stored string and deserializeWithValidation has
\* parsed it
Decoded ==
  /\ pc # "reading"
  /\ StoredAsRead
  /\ stored \notin {Absent, Garbage}
  /\ hydErr \notin {"ReadError", "ParseError"}

\* what the schema step of decoding returns for a payload it accepts
Validated(d) == IF cfg.schema THEN safeParse(d).data ELSE d

\* the schema step of decoding rejects the payload
Rejects(d) == cfg.schema /\ ~safeParse(d).success

\* the payload of a record at version v0 brought to version vT: the
\* migration keyed vT, when registered, applied to the payload brought to
\* version vT - 1
RECURSIVE Chain(_, _, _, _)
Chain(keys, v0, vT, d) ==
  IF vT <= v0 THEN d
  ELSE IF vT \in keys
    THEN migrationApply(vT, Chain(keys, v0, vT - 1, d))
    ELSE Chain(keys, v0, vT - 1, d)

IsRegistered(v) == v \in cfg.migrations

\* the log entries of the registered migrations keyed lo..hi, ascending
EventsOf(lo, hi) ==
  LET ks == SelectSeq([k \in 1..hi |-> k], IsRegistered)
      tail == {i \in 1..Len(ks) : ks[i] >= lo}
  IN  [j \in 1..Cardinality(tail) |->
         migrationEvent(ks[Len(ks) - Cardinality(tail) + j])]

\* the versions of v0+1..vT whose registered migration throws on the payload
\* the migrations below it produce
ThrowingVersions(v0, vT, d) ==
  {v \in (v0 + 1)..vT :
     /\ v \in cfg.migrations
     /\ migrationThrows(v, Chain(cfg.migrations, v0, v - 1, d))}

(* ------------------------------------------------------------------ *)
(* C16                                                                 *)
(* ------------------------------------------------------------------ *)

\* C16: decoding an envelope of version v0 below the target version vT, when
\* no migration throws, calls exactly the registered migrations keyed
\* v0+1..vT, once each and in ascending order, each on the output of the one
\* before it: a version with no registered migration leaves the payload as
\* it is and no migration keyed at or below v0 or above vT is called.  The
\* payload so obtained goes to the schema step and, when accepted, is the
\* value hydration commits.
C16_MigrationChain ==
  (/\ Decoded
   /\ stored.kind = "versioned"
   /\ stored.version < cfg.version
   /\ ThrowingVersions(stored.version, cfg.version, stored.data) = {}) =>
    LET out == Chain(cfg.migrations, stored.version, cfg.version, stored.data)
    IN  /\ AppliedLog = EventsOf(stored.version + 1, cfg.version)
        /\ hydErr = (IF Rejects(out) THEN "SchemaError" ELSE "none")
        /\ hydErr = "none" => value = Validated(out)

\* an envelope of version 1 was decoded at target version 3 with
\* migrations 1 and 3 registered: only migrations[3] was called
C16_Witness ==
  /\ Decoded
  /\ stored = Envelope(1, 1)
  /\ cfg.version = 3 /\ cfg.migrations = {1, 3} /\ ~cfg.schema
  /\ AppliedLog = << migrationEvent(3) >>
  /\ pc = "bodyDone"
  /\ value = migrationApply(3, 1)

(* ------------------------------------------------------------------ *)
(* C17                                                                 *)
(* ------------------------------------------------------------------ *)

\* C17: a stored string that parses to a value that is not an envelope is
\* decoded as version 0 with the whole parsed value as payload: when no
\* migration throws, every registered migration keyed 1..vT is called on
\* it, in ascending order, and the result goes to the schema step.
C17_LegacyIsVersionZero ==
  (/\ Decoded
   /\ stored.kind = "legacy"
   /\ ThrowingVersions(0, cfg.version, stored.data) = {}) =>
    LET out == Chain(cfg.migrations, 0, cfg.version, stored.data)
    IN  /\ AppliedLog = EventsOf(1, cfg.version)
        /\ Len(AppliedLog) = Cardinality(cfg.migrations \cap 1..cfg.version)
        /\ hydErr = (IF Rejects(out) THEN "SchemaError" ELSE "none")
        /\ hydErr = "none" => value = Validated(out)

\* the bare value 1 was decoded at target version 2 with migrations 1 and 2
\* registered: both were called, migrations[1] first
C17_Witness ==
  /\ Decoded
  /\ stored = Legacy(1)
  /\ cfg.version = 2 /\ cfg.migrations = {1, 2} /\ ~cfg.schema
  /\ AppliedLog = << migrationEvent(1), migrationEvent(2) >>
  /\ pc = "bodyDone"
  /\ value = migrationApply(2, migrationApply(1, 1))

(* ------------------------------------------------------------------ *)
(* C18                                                                 *)
(* ------------------------------------------------------------------ *)

\* the positions of the hydration log where baseSet committed a value
Commits == {i \in 1..Len(hlog) : hlog[i] = "commit"}

BackupCalls == {i \in 1..Len(hlog) : hlog[i] = "createBackup"}

\* C18: when the migration keyed v throws during hydration, decoding ends
\* with the error that names v, the migrations called are those registered
\* below v and none above it, nothing of the stored record is committed (the
\* only value committed is one the fallback producer returned), and the
\* catch block runs: the backup when the adapter offers one, then the
\* fallback producer when one is configured.
C18_ThrowingMigrationAborts ==
  LET v0 == dataVersionOf(stored)
      tv == ThrowingVersions(v0, cfg.version, stored.data)
  IN  (Decoded /\ tv # {}) =>
        LET v == CHOOSE w \in tv : \A u \in tv : w <= u
        IN  /\ hydErr = migrationError(v)
            /\ AppliedLog = EventsOf(v0 + 1, v - 1)
            /\ pc \in {"backup", "fallback", "recoveryWrite", "failed"}
            /\ \A i \in Commits : \E j \in ProducerCalls : j < i
            /\ Commits = {} => value = initial
            /\ Commits # {} => value \in Fallbacks
            /\ callsBackup => BackupCalls = {Len(AppliedLog) + 2}
            /\ ~callsBackup => BackupCalls = {}
            /\ ProducerCalls # {} <=> (cfg.onCorruption /\ pc # "backup")
            /\ \A i \in ProducerCalls : \A j \in BackupCalls : j < i

\* migrations[2] threw on the output of migrations[1]; the backup was made
\* and the fallback producer is running; migrations[3] was not called
C18_Witness ==
  /\ stored = Legacy(2)
  /\ cfg.version = 3 /\ cfg.migrations = {1, 2, 3}
  /\ hydErr = migrationError(2)
  /\ hlog = << "getItem", migrationEvent(1), "createBackup", "onCorruption" >>
  /\ pc = "fallback"
  /\ value = initial

(* ------------------------------------------------------------------ *)
(* C19                                                                 *)
(* ------------------------------------------------------------------ *)

\* C19: decoding an envelope whose version is the target version or above it
\* calls no migration and raises no error on account of the version: the
\* payload goes unchanged to the schema step, and with no schema it is the
\* value hydration commits.
C19_NoMigrationAtOrAboveTarget ==
  (/\ Decoded
   /\ stored.kind = "versioned"
   /\ stored.version >= cfg.version) =>
    /\ AppliedLog = << >>
    /\ hydErr = (IF Rejects(stored.data) THEN "SchemaError" ELSE "none")
    /\ hydErr = "none" => value = Validated(stored.data)
    /\ ~cfg.schema =>
         /\ value = stored.data
         /\ pc \in {"bodyDone", "armed", "hydrated"}

\* an envelope of version 3 was decoded at target version 1 with migrations
\* 1, 2 and 3 registered: none was called and the payload was committed
C19_Witness ==
  /\ stored = Envelope(3, 2)
  /\ cfg.version = 1 /\ cfg.migrations = {1, 2, 3} /\ ~cfg.schema
  /\ hlog = << "getItem", "commit" >>
  /\ pc = "bodyDone"
  /\ value = 2

(* ------------------------------------------------------------------ *)
(* C20                                                                 *)
(* ------------------------------------------------------------------ *)

\* hydration has decoded the record the engine writes for x at the target
\* version
DecodedRecordOf(x) ==
  /\ Decoded
  /\ stored = serializeWithVersion(cfg.version, x)

\* hydration committed x without calling a migration, and the record the
\* engine writes for the committed value is the stored record
RoundTrips(x) ==
  /\ hydErr = "none"
  /\ AppliedLog = << >>
  /\ value = x
  /\ serializeWithVersion(cfg.version, value) = stored

TimerValues == {timers[i] : i \in 1..Len(timers)}

\* the kinds of the setItem calls made so far
CallKinds == {calls[i].kind : i \in 1..Len(calls)}

\* C21: every setItem call the engine makes (from the subscription at once,
\* from a debounce timer, from flush or setAndFlush, from the recovery)
\* carries the envelope of the target version and of the value being
\* written: the value the timer captured for a timer's call, the atom's
\* value at the call for every other.
C21_WritesEnvelopeOfValue ==
  [][SetItemStep =>
       LET c == calls'[Len(calls')]
       IN  /\ c.payload.kind = "versioned"
           /\ c.payload.version = cfg.version
           /\ IF c.kind = "timer"
                THEN c.payload.data \in TimerValues
                ELSE c.payload.data = value']_vars

\* at target version 2 the recovery, the subscription and a flush have each
\* made a setItem call
C21_Witness ==
  /\ cfg.version = 2
  /\ {"recovery", "auto", "flush"} \subseteq CallKinds
  /\ \A i \in 1..Len(calls) : calls[i].payload.version = 2

(* ------------------------------------------------------------------ *)
(* C22                                                                 *)
(* ------------------------------------------------------------------ *)

\* this step is a call of setAndFlush on a hydrated atom with no other
\* setAndFlush in progress, whose set step does not throw
LoneSetAndFlush ==
  /\ SetAndFlushStep
  /\ isHydrationComplete
  /\ ~isFlushing
  /\ last'.res = "pending"

\* C22: a setAndFlush(next) on a hydrated atom with no other setAndFlush in
\* progress makes exactly one setItem call, carrying the envelope of the
\* value it leaves in the atom, and leaves no timer armed, with and without
\* debounceMs; and while a setAndFlush is in progress the write subscription
\* makes no setItem call and arms no timer.
C22_SetAndFlushWritesOnce ==
  [][/\ LoneSetAndFlush =>
          /\ Len(calls') = Len(calls) + 1
          /\ calls'[Len(calls')].kind = "setAndFlush"
          /\ calls'[Len(calls')].payload =
               serializeWithVersion(cfg.version, value')
          /\ value' = Committed(last'.arg)
               \/ (cfg.isEqual /\ value' = value
                     /\ isEqualFn(value, Committed(last'.arg)))
          /\ timers' = << >>
          /\ debouncer' = "undefined"
          /\ isFlushing'
     /\ isFlushing =>
          /\ SetItemStep => (FlushStep \/ SetAndFlushStep)
          /\ Len(timers') <= Len(timers)]_vars

\* a setAndFlush that changed the value of a debounced atom is in progress:
\* the timer armed with the subscription is gone and one call was made
C22_Witness ==
  /\ cfg.debounce
  /\ last.op = "setAndFlush" /\ last.res = "pending"
  /\ isFlushing
  /\ value # initial
  /\ timers = << >>
  /\ Len(calls) = 1 /\ calls[1].kind = "setAndFlush"
  /\ notified = 1

(* ------------------------------------------------------------------ *)
(* C23                                                                 *)
(* ------------------------------------------------------------------ *)

\* the catch block committed a value the fallback producer returned
FallbackCommitted == ProducerCalls # {} /\ Commits # {}

\* the setItem calls that carry the atom's current value
CallsOfValue == {i \in 1..Len(calls) : calls[i].payload.data = value}

\* C23: after a recovery that committed the fallback value F, with no set
\* afterwards, the engine makes one setItem call carrying F, the recovery
\* write, and the write subscription makes none when it is armed, although
\* subscribe calls the listener at once with the current value.
C23_OneWriteOfFallback ==
  FallbackCommitted =>
    /\ Cardinality(CallsOfValue) = 1
    /\ CallsOfValue = RecoveryCalls
    /\ AutoCalls = {}

(* ------------------------------------------------------------------ *)
(* C24                                                                 *)
(* ------------------------------------------------------------------ *)

\* getItem has resolved with no record: the adapter held none when the atom
\* was constructed and no setItem call has been acknowledged since
AbsentRead ==
  /\ stored = Absent
  /\ StoredAsRead
  /\ pc # "reading"
  /\ hydErr # "ReadError"

\* C24: when getItem yields no record, hydration succeeds with the
\* constructor's initial value: no error is caught, no backup is made, the
\* fallback producer is not called, nothing is committed, a.ready resolves
\* and from then on set is let through.
C24_AbsentRecordHydrates ==
  AbsentRead =>
    /\ hydErr = "none"
    /\ hlog = << "getItem" >>
    /\ pc \in {"bodyDone", "armed", "hydrated"}
    /\ ready.state # "rejected"
    /\ pc \in {"bodyDone", "armed"} => value = initial
    /\ pc = "hydrated" =>
         /\ ready = Resolved
         /\ isHydrationComplete
         /\ ~setBlocked

\* with no record stored, a.ready has resolved and a set has then changed
\* the value
C24_Witness ==
  /\ AbsentRead
  /\ ready = Resolved
  /\ last.op = "set" /\ last.res = "ok"
  /\ value = last.arg /\ value # initial

(* ------------------------------------------------------------------ *)
(* C25                                                                 *)
(* ------------------------------------------------------------------ *)

\* storage.createBackup rejected during the recovery
BackupFailed == \E i \in 1..Len(hlog) : hlog[i] = "backupFailed"

\* C25: a rejected createBackup does not block the recovery.  With a
\* fallback producer, the producer is still called; the value it returns is
\* committed and written and a.ready resolves.  With no fallback producer
\* a.ready rejects with the hydration error, not with the backup's.
C25_FailedBackupDoesNotBlock ==
  BackupFailed =>
    /\ hydErr \in {"ReadError", "ParseError", "MigrationError1",
                   "MigrationError2", "SchemaError"}
    /\ cfg.onCorruption => ProducerCalls # {}
    /\ FallbackCommitted =>
         /\ RecoveryCalls # {}
         /\ ready.state # "rejected"
         /\ pc \in {"recoveryWrite", "bodyDone", "armed", "hydrated"}
         /\ pc = "hydrated" => ready = Resolved
    /\ ~cfg.onCorruption =>
         /\ pc = "failed"
         /\ ready = Rejected(hydErr)

(* ------------------------------------------------------------------ *)
(* C26                                                                 *)
(* ------------------------------------------------------------------ *)

\* the positions of the hydration log where the recovery wrote the fallback
RecoveryWrites == {i \in 1..Len(hlog) : hlog[i] = "setItem"}

\* C26: storage.createBackup is called at most once per atom, only after
\* the hydration sequence has caught an error and only when the adapter has
\* both a filePath and a createBackup; the call comes straight after the
\* read and the migrations, before the fallback producer is called and
\* before anything is committed or written by the recovery; it is not made
\* when hydration succeeds, nor by set, flush or setAndFlush.
C26_BackupOnlyOnFailure ==
  /\ Cardinality(BackupCalls) <= 1
  /\ hydErr = "none" => BackupCalls = {}
  /\ BackupCalls # {} => (cfg.filePath /\ cfg.createBackup)
  /\ \A i \in BackupCalls :
       /\ \A j \in 1..(i - 1) : hlog[j] \in {"getItem"} \cup MigrationEvents
       /\ \A j \in ProducerCalls \cup Commits \cup RecoveryWrites : i < j

\* the backup was made before a recovery that ended well, and a flush
\* called afterwards made no other
C26_Witness ==
  /\ hlog = << "getItem", "createBackup", "onCorruption", "commit", "setItem" >>
  /\ pc = "hydrated"
  /\ last.op = "flush" /\ last.res = "ok"

(* ------------------------------------------------------------------ *)
(* C27                                                                 *)
(* ------------------------------------------------------------------ *)

\* the positions of the hydration log where storage.getItem was called
GetItemCalls == {i \in 1..Len(hlog) : hlog[i] = "getItem"}

\* C27: storage.getItem is called once, when the atom is constructed, and by
\* no later operation; the hydration sequence commits at most one value:
\* the decoded data when no error was caught, or else a value the fallback
\* producer returned.
C27_OneHydration ==
  /\ GetItemCalls = {1}
  /\ Cardinality(Commits) <= 1
  /\ (Commits # {} /\ hydErr = "none") => ProducerCalls = {}
  /\ (Commits # {} /\ hydErr # "none") =>
       \A i \in Commits : \E j \in ProducerCalls : j < i

\* the decoded data was committed and a setAndFlush called afterwards has
\* returned: the log still holds the one read and the one commit
C27_Witness ==
  /\ hlog = << "getItem", "commit" >>
  /\ last.op = "setAndFlush" /\ last.res = "ok"
  /\ value # initial
  /\ opsLeft = 0

(* ------------------------------------------------------------------ *)
(* C28                                                                 *)
(* ------------------------------------------------------------------ *)

\* C28: the constructor throws exactly when the key or the storage option is
\* missing, and then nothing of the hydration has run.  Otherwise it returns
\* an atom holding the initial value, which get() returns until the
\* hydration sequence commits; an error of the hydration (read, parse,
\* migration, validation, recovery) is caught by the sequence, which starts
\* after the constructor's first await, and shows only as the rejection of
\* a.ready.
C28_ConstructorNeverThrowsHydrationErrors ==
  /\ pc = "threw" <=> (~cfg.key \/ ~cfg.storage)
  /\ pc = "threw" => (hlog = << >> /\ hydErr = "none" /\ ready = Pending)
  /\ pc = "reading" => (value = initial /\ hydErr = "none" /\ ready = Pending)
  /\ (pc # "threw" /\ Commits = {}) => value = initial
  /\ hydErr # "none" =>
       /\ pc \in {"backup", "fallback", "recoveryWrite", "failed",
                  "bodyDone", "armed", "hydrated"}
       /\ pc = "failed" <=> ready = Rejected(hydErr)

\* a constructed atom whose stored data the schema rejected: a.ready is
\* rejected with the validation error and get() is the initial value
C28_Witness ==
  /\ cfg.key /\ cfg.storage
  /\ pc = "failed"
  /\ ready = Rejected("SchemaError")
  /\ value = initial

(* ------------------------------------------------------------------ *)
(* C29                                                                 *)
(* ------------------------------------------------------------------ *)

\* C29: with a schema, when no migration throws, the schema runs once the
\* migrations have run, on the payload they produced.  When it accepts, the
\* value committed is its output; when it rejects, the error caught is the
\* validation error, nothing of the stored record is committed (the only
\* value committed is one the fallback producer returned) and the catch
\* block runs.
C29_SchemaRunsOnMigratedPayload ==
  LET v0  == IF stored.kind = "versioned" THEN stored.version ELSE 0
      out == Chain(cfg.migrations, v0, cfg.version, stored.data)
  IN  (/\ Decoded
       /\ cfg.schema
       /\ ThrowingVersions(v0, cfg.version, stored.data) = {}) =>
        /\ AppliedLog = EventsOf(v0 + 1, cfg.version)
        /\ safeParse(out).success =>
             /\ hydErr = "none"
             /\ value = safeParse(out).data
             /\ Cardinality(Commits) = 1
             /\ ProducerCalls = {}
        /\ ~safeParse(out).success =>
             /\ hydErr = "SchemaError"
             /\ pc \in {"backup", "fallback", "recoveryWrite", "failed"}
             /\ \A i \in Commits : \E j \in ProducerCalls : j < i
             /\ Commits = {} => value = initial
             /\ Commits # {} => value \in Fallbacks

\* the bare value 1 was migrated to 2 by migrations[1] and the schema then
\* coerced 2 to 1, which was committed
C29_Witness ==
  /\ Decoded
  /\ cfg.schema
  /\ stored = Legacy(1)
  /\ cfg.version = 1 /\ cfg.migrations = {1}
  /\ AppliedLog = << migrationEvent(1) >>
  /\ migrationApply(1, 1) # safeParse(migrationApply(1, 1)).data
  /\ value = safeParse(migrationApply(1, 1)).data
  /\ pc = "bodyDone"

(* ------------------------------------------------------------------ *)
(* C30                                                                 *)
(* ------------------------------------------------------------------ *)

\* C30: with a schema, the value the fallback producer returns is validated
\* before it is committed and written: the value the recovery commits, and
\* the payload of the recovery write, is never a value the schema rejects.
C30_FallbackIsValidated ==
  (cfg.schema /\ FallbackCommitted) =>
    /\ safeParse(value).success
    /\ \A i \in RecoveryCalls : safeParse(calls[i].payload.data).success

(* ------------------------------------------------------------------ *)
(* C31                                                                 *)
(* ------------------------------------------------------------------ *)

\* hydration has committed data it decoded by running at least one
\* migration, and nothing has been written since
MigratedCommit ==
  /\ Decoded
  /\ hydErr = "none"
  /\ AppliedLog # << >>
  /\ Commits # {}

\* the subscription has made a setItem call with the envelope of the target
\* version and of the current value
SavedByEngine ==
  \E i \in AutoCalls : calls[i].payload = Envelope(cfg.version, value)

\* C31: after a hydration that ran migrations and succeeded, with no set
\* called, the engine comes to make a setItem call carrying the envelope of
\* the target version and of the migrated value: in the then callback when
\* there is no debounceMs, from the timer armed there otherwise.
C31_MigratedDataIsSaved ==
  /\ MigratedCommit ~> SavedByEngine
  /\ [](MigratedCommit /\ ~cfg.debounce /\ isHydrationComplete
          => SavedByEngine)
  /\ [](MigratedCommit /\ cfg.debounce /\ isHydrationComplete
          => (SavedByEngine \/ timers = << value >>))

\* the timer armed when the subscription was made has fired and written the
\* migrated value of a version 1 record at target version 2
C31_Witness ==
  /\ cfg.debounce
  /\ cfg.version = 2 /\ cfg.migrations = {2}
  /\ stored = Envelope(1, 1)
  /\ MigratedCommit
  /\ value = migrationApply(2, 1)
  /\ Len(calls) = 1 /\ calls[1].kind = "timer"
  /\ calls[1].payload = Envelope(2, value)

(* ------------------------------------------------------------------ *)
(* C32                                                                 *)
(* ------------------------------------------------------------------ *)

\* this step is a call of setAndFlush(next) whose set step is rejected:
\* hydration has not completed, or the schema rejects next
RejectedSetAndFlush ==
  /\ SetAndFlushStep
  /\ \/ ~isHydrationComplete
     \/ cfg.schema /\ ~safeParse(last'.arg).success

HydrationCommitStep == Cardinality(Commits') = Cardinality(Commits) + 1

\* this step is the firing of a debounce timer
TimerStep == SetItemStep /\ calls'[Len(calls')].kind = "timer"

\* this step is the settling of a setItem call
WriteSettlesStep ==
  \E i \in 1..Len(calls) :
    /\ Len(calls') = Len(calls)
    /\ calls[i].st = "inflight"
    /\ calls'[i].st # "inflight"

\* this step is the settling of storage.createBackup
BackupSettlesStep == pc = "backup" /\ pc' # "backup"

\* C33: the in-memory value changes, and a subscriber is notified, only in a
\* step of set or setAndFlush or in a commit of the hydration sequence:
\* flush, the firing of a timer, the settling of a write and the settling
\* of the backup leave the value as it is and notify nobody.
C33_ValueChangesOnlyBySetOrHydration ==
  [][/\ (value' # value \/ notified' # notified) =>
          (SetStep \/ SetAndFlushStep \/ HydrationCommitStep)
     /\ (FlushStep \/ TimerStep \/ WriteSettlesStep \/ BackupSettlesStep) =>
          (value' = value /\ notified' = notified)]_vars

\* a set value has stayed through a flush and the failure of a write
C33_Witness ==
  /\ value # initial
  /\ last.op = "flush" /\ last.res = "throw"
  /\ \E i \in AutoCalls : calls[i].st = "fail" /\ calls[i].payload.data = value
  /\ notified = 1

(* ------------------------------------------------------------------ *)
(* C34                                                                 *)
(* ------------------------------------------------------------------ *)

\* C34: as long as the hydrated flag is false no public operation makes a
\* setItem call: the only call made with the flag still false after it is
\* the recovery write of the fallback value.  A flush() called while the
\* hydration is pending makes none.
C34_NoWriteBeforeHydration ==
  [][(SetItemStep /\ ~isHydrationComplete') =>
       calls'[Len(calls')].kind = "recovery"]_vars

(* ------------------------------------------------------------------ *)
(* C35                                                                 *)
(* ------------------------------------------------------------------ *)

\* no setItem call failed, and the adapter holds what the calls leave when
\* applied in call order: the payload of the last one
WritesAppliedInOrder ==
  /\ \A i \in 1..Len(calls) : calls[i].st # "fail"
  /\ (calls # << >> /\ calls[Len(calls)].st = "ack") =>
       stored = calls[Len(calls)].payload

\* a hydrated atom at rest: no timer pending, no write in flight, no
\* setAndFlush in progress
Quiescent ==
  /\ pc = "hydrated"
  /\ timers = << >>
  /\ \A i \in 1..Len(calls) : calls[i].st # "inflight"
  /\ ~isFlushing

\* C35: when no setItem call fails and the adapter applies the writes in
\* call order, in every state where a hydrated atom is at rest the stored
\* record is the envelope of the in-memory value.
C35_QuiescentConsistency ==
  (Quiescent /\ WritesAppliedInOrder) =>
    stored = Envelope(cfg.version, value)

(* ------------------------------------------------------------------ *)
(* C36                                                                 *)
(* ------------------------------------------------------------------ *)

\* the setAndFlush calls in progress: their write has not settled
SetAndFlushInProgress ==
  {i \in 1..Len(calls) :
     calls[i].kind = "setAndFlush" /\ calls[i].st = "inflight"}

\* C36: whenever a setAndFlush call is in progress isFlushing is true, also
\* when two setAndFlush calls overlap: the end of one does not open the
\* automatic write path while the write of the other is in flight.
C36_FlagHeldWhileInProgress ==
  SetAndFlushInProgress # {} => isFlushing

(* ------------------------------------------------------------------ *)
(* C37                                                                 *)
(* ------------------------------------------------------------------ *)

\* C37: every pending debounce timer captured the current in-memory value,
\* in every reachable state, so the write a timer makes when it fires
\* carries the value the atom holds at that moment.
C37_PendingTimerHoldsCurrentValue ==
  /\ [](\A i \in 1..Len(timers) : timers[i] = value)
  /\ [][TimerStep => calls'[Len(calls')].payload.data = value]_vars

\* a timer is pending on an atom whose value a set has changed, after a
\* setAndFlush was rejected
C37_Witness ==
  /\ cfg.debounce
  /\ timers = << value >>
  /\ value # initial
  /\ last.op = "setAndFlush" /\ last.res = "throw"

(* ------------------------------------------------------------------ *)
(* C38                                                                 *)
(* ------------------------------------------------------------------ *)

\* C38: at most one debounce timer is pending in every reachable state:
\* an observed change cancels the outstanding timer before arming the new
\* one, and flush and setAndFlush leave none pending.
C38_AtMostOneTimer ==
  /\ [](Len(timers) <= 1)
  /\ [][(FlushStep \/ (SetAndFlushStep /\ last'.res # "throw"))
          => timers' = << >>]_vars

\* a second observed change re-armed the timer: one timer is pending, it
\* holds the second value, and both sets were accepted
C38_Witness ==
  /\ cfg.debounce
  /\ opsLeft = 0
  /\ last.op = "set" /\ last.res = "ok"
  /\ Len(timers) = 1
  /\ timers[1] # initial
  /\ calls = << >>

(* ------------------------------------------------------------------ *)
(* C39                                                                 *)
(* ------------------------------------------------------------------ *)

\* the async body of a.ready has not returned, or has thrown
HydrationUnfinished ==
  pc \in {"reading", "backup", "fallback", "recoveryWrite", "bodyDone",
          "failed"}

\* C39: the hydrated flag is false until the hydration body has returned
\* without throwing, directly or after a recovery, becomes true in the then
\* callback and never returns to false; the write subscription is armed in
\* that same step and in no other; a rejected ready leaves the flag false;
\* and set throws the not-hydrated error exactly when the flag is false.
C39_HydratedFlag ==
  /\ [](HydrationUnfinished => ~isHydrationComplete)
  /\ [](pc \in {"armed", "hydrated"} => isHydrationComplete)
  /\ [](isHydrationComplete <=> subscribed)
  /\ [](ready.state = "resolved" => isHydrationComplete)
  /\ [](ready.state = "rejected" => ~isHydrationComplete)
  /\ [][isHydrationComplete => isHydrationComplete']_vars
  /\ [][isHydrationComplete' # isHydrationComplete
          => pc = "bodyDone" /\ pc' = "armed"]_vars
  /\ [][subscribed' # subscribed
          => ~subscribed /\ isHydrationComplete' # isHydrationComplete]_vars
  /\ [][(SetStep \/ SetAndFlushStep)
          => (last'.err = "NotReady" <=> ~isHydrationComplete)]_vars

\* hydration ended through a recovery, the flag is set, the subscription
\* is armed and a set has been let through
C39_Witness ==
  /\ RecoveredFromGarbage
  /\ isHydrationComplete /\ subscribed
  /\ ready.state = "resolved"
  /\ last.op = "set" /\ last.res = "ok"

(* ------------------------------------------------------------------ *)
(* C40                                                                 *)
(* ------------------------------------------------------------------ *)

\* hydration is over: a.ready has resolved or has rejected
HydrationEnded == pc \in {"hydrated", "failed"}

\* C40: when every adapter call and the fallback producer settle, a.ready
\* eventually settles; once settled it never changes; it resolves exactly
\* in the state hydrated and rejects exactly in the state failed; and the
\* hydration sequence stays in the one of the two it reached.
C40_HydrationTerminates ==
  /\ <>(ready.state # "pending")
  /\ <>[]HydrationEnded
  /\ [](ready.state = "resolved" <=> pc = "hydrated")
  /\ [](ready.state = "rejected" <=> pc = "failed")
  /\ [][ready.state # "pending" => ready' = ready]_vars
  /\ [][HydrationEnded => pc' = pc]_vars

\* a.ready rejected at the end of a recovery that called the corruption
\* handler after a backup
C40_Witness ==
  /\ pc = "failed"
  /\ ready.state = "rejected"
  /\ \E i \in 1..Len(hlog) : hlog[i] = "createBackup"
  /\ \E i \in 1..Len(hlog) : hlog[i] = "onCorruption"

====
